---- MODULE Spec2Model ----
(***************************************************************************)
(* Strategy-and-execution engine of the paper trader: the live trading bot *)
(* with its lifecycle manager (services/trading_bot.py) and the backtest    *)
(* simulator (services/backtester.py).                                      *)
(*                                                                          *)
(* Scheduling model of the live part: asyncio is single-threaded and        *)
(* cooperative.  start_bot and stop_bot never suspend (the lock is free     *)
(* whenever they run, TradingBot.stop has no suspension point), and inside  *)
(* TradingBot.run the only suspension point is asyncio.sleep: the broker    *)
(* and market-data calls of a cycle are plain synchronous calls.  So each   *)
(* of start_bot, stop_bot, "first step of run()" and "wake-up of run()" is  *)
(* one atomic action, and a task created by create_task takes its first     *)
(* step only when the event loop gets to it.                                *)
(***************************************************************************)
EXTENDS Integers, Sequences, FiniteSets, TLC

VARIABLES
    instance,      \* TradingBotManager._instance: a bot id, or NoBot (None)
    nbots,         \* number of TradingBot objects constructed so far
    bots,          \* bot id -> the TradingBot object's fields
    pc,            \* bot id -> position of the task running TradingBot.run
    wake_at,       \* bot id -> clock value at which its asyncio.sleep ends
    runs,          \* bot id -> the BotRun row of its run_id
    now,           \* the clock (datetime.utcnow()), in seconds
    brokerPos,     \* the broker's position on the bot's symbol
    hist,          \* history: what the manager calls and the tasks did so far
    cyc,           \* history: the cycle the last step executed, if it did
    engine,        \* the strategy engine's output on each window, tabulated
    bt,            \* the Backtester object and the position of its run()
    mgr,           \* TradingBotManager._lock and the calls of start_bot / stop_bot
    req            \* history: the timeframe of the config last given to
                   \* start_bot, how the call ended, the bot's check_interval

vars == <<instance, nbots, bots, pc, wake_at, runs, now, brokerPos, hist, cyc, engine, bt, mgr, req>>

----------------------------------------------------------------------------
(* Bounds of the model *)

\* TradingBot objects that can be constructed in one behaviour
MaxBots == 2

\* bars given to one backtest run
MaxBars == 5

\* cycles executed in one behaviour, by all bots together
MaxCycles == 2

\* calls of start_bot / stop_bot that can be in progress at the same time
MaxCallers == 2

\* calls that fail (raise) in one behaviour: market data, broker, strategy
\* engine, database and sleep calls together
MaxFaults == 1

----------------------------------------------------------------------------
(* Strategy engine (app.services.strategy): EMA crossover.  Exact rational *)
(* arithmetic: an EMA value is a fraction num / den in lowest terms.       *)

RECURSIVE Gcd(_, _)
Gcd(a, b) == IF b = 0 THEN a ELSE Gcd(b, a % b)

\* the fraction num / den (num >= 0, den > 0) in lowest terms
Reduced(num, den) ==
    [num |-> num \div Gcd(num, den), den |-> den \div Gcd(num, den)]

\* ema[1] = close[1]; ema[i] = alpha*close[i] + (1-alpha)*ema[i-1], alpha = 2/(N+1)
Ema(closes, N, i) ==
    LET e[k \in 1..i] ==
            IF k = 1 THEN [num |-> closes[1], den |-> 1]
            ELSE CHOOSE next \in {Reduced(2 * closes[k] * prev.den + (N - 1) * prev.num,
                                          (N + 1) * prev.den) : prev \in {e[k - 1]}} : TRUE
    IN  e[i]

\* sign of fast_ema[i] - slow_ema[i]
Ordering(closes, fast, slow, i) ==
    LET pair == <<Ema(closes, fast, i), Ema(closes, slow, i)>>
        l == pair[1].num * pair[2].den
        r == pair[2].num * pair[1].den
    IN  IF l > r THEN 1 ELSE IF l < r THEN -1 ELSE 0

\* the signal of bar i without the warm-up: signals from the second bar on
SignalAtNoWarmup(closes, fast, slow, i) ==
    IF i < 2 THEN "none"
    ELSE LET p == Ordering(closes, fast, slow, i - 1)
             c == Ordering(closes, fast, slow, i)
         IN  IF p <= 0 /\ c > 0 THEN "buy"
             ELSE IF p >= 0 /\ c < 0 THEN "sell"
             ELSE "none"

\* the signal of bar i with equal EMAs counted as the fast one above
SignalAtOnEqual(closes, fast, slow, i) ==
    IF i < slow \/ i < 2 THEN "none"
    ELSE LET p == Ordering(closes, fast, slow, i - 1)
             c == Ordering(closes, fast, slow, i)
         IN  IF p <= 0 /\ c >= 0 THEN "buy"
             ELSE IF p >= 0 /\ c < 0 THEN "sell"
             ELSE "none"

\* the signal of bar i: none during the first slow-1 bars, then a change of
\* the fast-vs-slow ordering between bar i-1 and bar i
SignalAt(closes, fast, slow, i) ==
    IF i < slow \/ i < 2 THEN "none"
    ELSE LET p == Ordering(closes, fast, slow, i - 1)
             c == Ordering(closes, fast, slow, i)
         IN  IF p <= 0 /\ c > 0 THEN "buy"
             ELSE IF p >= 0 /\ c < 0 THEN "sell"
             ELSE "none"

\* the signals of a bar sequence, in bar order; a bar's timestamp is its index
GenerateSignals(closes, fast, slow) ==
    LET at == [i \in 1..Len(closes) |->
                 [timestamp |-> i, signal_type |-> SignalAt(closes, fast, slow, i),
                  price |-> closes[i]]]
    IN  SelectSeq(at, LAMBDA s : s.signal_type # "none")

\* Exit rules of the engine.  A percentage of a price is computed with an
\* integer division, which is exact for the prices and percentages of the
\* model (prices are multiples of 100).  Unset is a percentage left None.
Unset == -1

\* strategy.calculate_stop_loss: entry * (1 -/+ stop_loss_percent / 100)
CalculateStopLoss(entry_price, side, stop_loss_percent) ==
    IF side = "buy" THEN (entry_price * (100 - stop_loss_percent)) \div 100
    ELSE (entry_price * (100 + stop_loss_percent)) \div 100

\* strategy.calculate_take_profit: entry * (1 +/- take_profit_percent / 100)
CalculateTakeProfit(entry_price, side, take_profit_percent) ==
    IF side = "buy" THEN (entry_price * (100 + take_profit_percent)) \div 100
    ELSE (entry_price * (100 - take_profit_percent)) \div 100

\* strategy.should_exit_on_stop_loss
ShouldExitOnStopLoss(entry_price, current_price, side, stop_loss_percent) ==
    /\ stop_loss_percent # Unset
    /\ IF side = "buy"
       THEN current_price <= CalculateStopLoss(entry_price, side, stop_loss_percent)
       ELSE current_price >= CalculateStopLoss(entry_price, side, stop_loss_percent)

\* strategy.should_exit_on_take_profit
ShouldExitOnTakeProfit(entry_price, current_price, side, take_profit_percent) ==
    /\ take_profit_percent # Unset
    /\ IF side = "buy"
       THEN current_price >= CalculateTakeProfit(entry_price, side, take_profit_percent)
       ELSE current_price <= CalculateTakeProfit(entry_price, side, take_profit_percent)

----------------------------------------------------------------------------
(* Live trading bot: values *)

NoBot == 0
Bots == 1..MaxBots

\* None in an Optional[str] field, None in an Optional number field
NoneStr == "None"
NoneNum == -1

\* A timeframe string is the sequence of its characters.

\* str.lower on the characters the timeframes of the model are made of
ToLower(c) ==
    CASE c = "M" -> "m" [] c = "I" -> "i" [] c = "N" -> "n" [] c = "H" -> "h"
      [] c = "D" -> "d" [] c = "W" -> "w" [] c = "T" -> "t" [] OTHER -> c
LowerStr(str) == [i \in 1..Len(str) |-> ToLower(str[i])]

\* sub in str
Contains(str, sub) ==
    \E i \in 1..(Len(str) - Len(sub) + 1) : SubSeq(str, i, i + Len(sub) - 1) = sub

\* str.replace(sub, ''): the occurrences of sub are removed from left to
\* right (sub is not empty)
RECURSIVE Remove(_, _)
Remove(str, sub) ==
    IF Len(str) < Len(sub) THEN str
    ELSE IF SubSeq(str, 1, Len(sub)) = sub
    THEN Remove(SubSeq(str, Len(sub) + 1, Len(str)), sub)
    ELSE <<Head(str)>> \o Remove(Tail(str), sub)

\* the decimal digits and their values
Digits == {"0", "1", "2", "3", "4", "5", "6", "7", "8", "9"}
DigitValue(c) ==
    CASE c = "0" -> 0 [] c = "1" -> 1 [] c = "2" -> 2 [] c = "3" -> 3 [] c = "4" -> 4
      [] c = "5" -> 5 [] c = "6" -> 6 [] c = "7" -> 7 [] c = "8" -> 8 [] c = "9" -> 9

\* str.strip() for the blank
RECURSIVE Strip(_)
Strip(str) ==
    IF str # <<>> /\ Head(str) = " " THEN Strip(Tail(str))
    ELSE IF str # <<>> /\ str[Len(str)] = " " THEN Strip(SubSeq(str, 1, Len(str) - 1))
    ELSE str

\* int(str): blanks around the literal are ignored, a sign may precede
\* the digits, there is at least one digit and nothing else; anything else
\* raises ValueError.  Gives [raised, value].
ParseInt(str) ==
    LET lit == Strip(str)
        signed == lit # <<>> /\ Head(lit) \in {"+", "-"}
        digits == IF signed THEN Tail(lit) ELSE lit
        val[k \in 0..Len(digits)] ==
            IF k = 0 THEN 0 ELSE 10 * val[k - 1] + DigitValue(digits[k])
    IN  IF digits = <<>> \/ \E k \in 1..Len(digits) : digits[k] \notin Digits
        THEN [raised |-> TRUE, value |-> 0]
        ELSE [raised |-> FALSE,
              value |-> IF signed /\ Head(lit) = "-" THEN 0 - val[Len(digits)]
                        ELSE val[Len(digits)]]

\* TradingBot._get_check_interval: [raised, value], raised when int()
\* raises ValueError
GetCheckInterval(timeframe) ==
    LET tf == LowerStr(timeframe)
    IN  IF Contains(tf, <<"m", "i", "n">>)
        THEN LET minutes == ParseInt(Remove(tf, <<"m", "i", "n">>))
             IN  [raised |-> minutes.raised, value |-> minutes.value * 60]
        ELSE IF Contains(tf, <<"h", "o", "u", "r">>)
        THEN LET hours == ParseInt(Remove(tf, <<"h", "o", "u", "r">>))
             IN  [raised |-> hours.raised, value |-> hours.value * 3600]
        ELSE IF Contains(tf, <<"d", "a", "y">>)
        THEN [raised |-> FALSE, value |-> 86400]
        ELSE [raised |-> FALSE, value |-> 300]

\* the timeframes given to start_bot: an amount, a unit and an ending
Amounts == {<<>>, <<"1">>, <<"5">>, <<"1", "5">>, <<" ", "5">>, <<"-", "1">>,
            <<"1", ".", "5">>}
Units == {<<"M", "i", "n">>, <<"m", "i", "n">>, <<"M", "I", "N">>,
          <<"H", "o", "u", "r">>, <<"h", "o", "u", "r">>,
          <<"D", "a", "y">>, <<"d", "a", "y">>,
          <<"W", "e", "e", "k">>, <<"M", "o", "n", "t", "h">>,
          <<"T">>, <<"H">>, <<>>}
Endings == {<<>>, <<"s">>}
Timeframes == {a \o u \o e : a \in Amounts, u \in Units, e \in Endings}

\* no start_bot call so far
NoRequest == [timeframe |-> <<>>, outcome |-> "none", check_interval |-> NoneNum]

\* the configuration every bot of the live model is started with:
\* timeframe 5Min
fast_ema_period == 2
slow_ema_period == 3
check_interval == GetCheckInterval(<<"5", "M", "i", "n">>).value

\* TradingBot.__init__
NewBot ==
    [is_running |-> FALSE, signals_generated |-> 0, orders_placed |-> 0,
     last_error |-> NoneStr, last_signal |-> NoneStr, last_signal_time |-> NoneNum,
     current_price |-> NoneNum, fast_ema_value |-> NoneNum, slow_ema_value |-> NoneNum,
     last_check_time |-> NoneNum, next_check_time |-> NoneNum]

\* the BotRun row the router creates before start_bot
NewRun ==
    [status |-> "running", error_message |-> NoneStr, stopped_at |-> NoneNum,
     signals_generated |-> 0, orders_placed |-> 0]

\* What the market-data collaborator can return to one fetch: the closes of
\* at most 2 * slow_ema_period bars, oldest first.
LiveWindows ==
    << <<10, 10>>,                       \* fewer bars than slow_ema_period
       <<10, 10, 10, 10, 10, 10>>,       \* flat: no signal
       <<10, 10, 10, 10, 10, 20>>,       \* BUY at the latest bar
       <<10, 10, 10, 20, 20, 20>>,       \* BUY at an earlier bar
       <<20, 20, 20, 20, 20, 10>> >>     \* SELL at the latest bar

\* Outcomes of the collaborator calls of one cycle.  fetch = 0: the bar
\* request raises, else the index of the window returned; the others: TRUE
\* when the call returns, FALSE when it raises.
FetchFails == 0
DbOutcomes == {"ok", "fail"}
Long == {k \in 1..Len(LiveWindows) : Len(LiveWindows[k]) >= slow_ema_period}
Short == (0..Len(LiveWindows)) \ Long

CycleInputs ==
    [fetch : Short, posq : {TRUE}, strat : {TRUE},
     posq2 : {TRUE}, write : {TRUE}, db : {"ok"}]
    \cup [fetch : Long, posq : BOOLEAN, strat : {FALSE},
          posq2 : {TRUE}, write : {TRUE}, db : {"ok"}]
    \cup [fetch : Long, posq : BOOLEAN, strat : {TRUE},
          posq2 : BOOLEAN, write : BOOLEAN, db : DbOutcomes]

\* the position the broker holds on the bot's symbol
Positions == {"none", "long", "short"}

\* strategy.generate_signals on each window, and the last EMA values the
\* engine retains after it
EngineOutput ==
    [k \in 1..Len(LiveWindows) |->
        [signals |-> GenerateSignals(LiveWindows[k], fast_ema_period, slow_ema_period),
         fast |-> Ema(LiveWindows[k], fast_ema_period, Len(LiveWindows[k])),
         slow |-> Ema(LiveWindows[k], slow_ema_period, Len(LiveWindows[k]))]]

\* the number of calls that fail in a cycle with these outcomes
Faults(in) ==
    (IF in.fetch = FetchFails THEN 1 ELSE 0) + (IF in.posq THEN 0 ELSE 1)
    + (IF in.strat THEN 0 ELSE 1) + (IF in.posq2 THEN 0 ELSE 1)
    + (IF in.write THEN 0 ELSE 1) + (IF in.db = "ok" THEN 0 ELSE 1)
DbFaults(db) == IF db = "ok" THEN 0 ELSE 1

\* TradingBot._fetch_latest_bars: a failure is logged and gives no bars
FetchLatestBars(in) ==
    IF in.fetch = FetchFails THEN <<>> ELSE LiveWindows[in.fetch]

\* TradingBot._check_existing_position: a failure is logged and gives False
CheckExistingPosition(pos, in) ==
    IF in.posq THEN pos # "none" ELSE FALSE

\* An order placement returns [calls, placed, pos, exc]: the broker writes
\* it issued, the increment of orders_placed, the broker's position after
\* it, and the message of the exception it lets escape (NoneStr: none).
Call(op, ok) == [op |-> op, ok |-> ok]

\* _place_buy_order that counts the order before submitting it
PlaceBuyOrderCountsFirst(pos, in) ==
    IF in.write
    THEN [calls |-> <<Call("submit_order_buy", TRUE)>>, placed |-> 1,
          pos |-> IF pos = "short" THEN "none" ELSE "long", exc |-> NoneStr]
    ELSE [calls |-> <<Call("submit_order_buy", FALSE)>>, placed |-> 1,
          pos |-> pos, exc |-> "submit_order failed"]

\* TradingBot._place_buy_order
PlaceBuyOrder(pos, in) ==
    IF in.write
    THEN [calls |-> <<Call("submit_order_buy", TRUE)>>, placed |-> 1,
          pos |-> IF pos = "short" THEN "none" ELSE "long", exc |-> NoneStr]
    ELSE [calls |-> <<Call("submit_order_buy", FALSE)>>, placed |-> 0,
          pos |-> pos, exc |-> "submit_order failed"]

\* _place_sell_order that only logs the SELL signal
PlaceSellOrderLogOnly(pos, in) ==
    IF ~in.posq2
    THEN [calls |-> <<>>, placed |-> 0, pos |-> pos, exc |-> "sell: list_positions failed"]
    ELSE [calls |-> <<>>, placed |-> 0, pos |-> pos, exc |-> NoneStr]

\* _place_sell_order that submits a sell-side market order when there is
\* no long position to close
PlaceSellOrderShorts(pos, in) ==
    IF ~in.posq2
    THEN [calls |-> <<>>, placed |-> 0, pos |-> pos, exc |-> "sell: list_positions failed"]
    ELSE IF pos = "long"
    THEN IF in.write
         THEN [calls |-> <<Call("delete_position", TRUE)>>, placed |-> 1,
               pos |-> "none", exc |-> NoneStr]
         ELSE [calls |-> <<Call("delete_position", FALSE)>>, placed |-> 0,
               pos |-> pos, exc |-> "delete_position failed"]
    ELSE IF in.write
         THEN [calls |-> <<Call("submit_order_sell", TRUE)>>, placed |-> 1,
               pos |-> "short", exc |-> NoneStr]
         ELSE [calls |-> <<Call("submit_order_sell", FALSE)>>, placed |-> 0,
               pos |-> pos, exc |-> "submit_order failed"]

\* TradingBot._place_sell_order
PlaceSellOrder(pos, in) ==
    IF ~in.posq2
    THEN [calls |-> <<>>, placed |-> 0, pos |-> pos, exc |-> "sell: list_positions failed"]
    ELSE IF pos = "long"
    THEN IF in.write
         THEN [calls |-> <<Call("delete_position", TRUE)>>, placed |-> 1,
               pos |-> "none", exc |-> NoneStr]
         ELSE [calls |-> <<Call("delete_position", FALSE)>>, placed |-> 0,
               pos |-> pos, exc |-> "delete_position failed"]
    ELSE [calls |-> <<>>, placed |-> 0, pos |-> pos, exc |-> NoneStr]

\* TradingBot._handle_signal: the placement's result; its exception does not
\* escape, it is what _handle_signal stores in last_error
HandleSignal(signal_type, pos, in) ==
    IF signal_type = "buy" THEN PlaceBuyOrder(pos, in)
    ELSE IF signal_type = "sell" THEN PlaceSellOrder(pos, in)
    ELSE [calls |-> <<>>, placed |-> 0, pos |-> pos, exc |-> NoneStr]

\* TradingBot._update_run_stats: a failed query or commit is logged and
\* rolled back (the rollback itself is taken to succeed)
UpdateRunStats(run, signals_generated, orders_placed, in) ==
    IF in.db = "ok"
    THEN [run |-> [run EXCEPT !.signals_generated = signals_generated,
                              !.orders_placed = orders_placed],
          exc |-> NoneStr]
    ELSE [run |-> run, exc |-> NoneStr]

\* TradingBot._update_run_status: a failed query or commit is logged and
\* rolled back (the rollback itself is taken to succeed)
UpdateRunStatus(run, status, error_msg, db, t) ==
    IF db = "ok"
    THEN [run EXCEPT !.status = status,
                     !.error_message = IF error_msg # NoneStr THEN error_msg ELSE @,
                     !.stopped_at = IF status \in {"stopped", "error"} THEN t ELSE @]
    ELSE run

\* SignalType.value.upper()
Upper(signal_type) == IF signal_type = "buy" THEN "BUY" ELSE "SELL"

\* no signal acted on
NoSignal == [timestamp |-> 0, signal_type |-> "none", price |-> 0]

\* TradingBot._execute_cycle at clock value t, for the bot's fields, its
\* BotRun row and the broker's position.  Gives the three after the cycle,
\* and for the properties: the broker writes issued (calls), the exceptions
\* raised anywhere in the cycle (raised) and what the cycle saw (facts;
\* window: which bars the fetch returned, 0 when it raised).
ExecuteCycle(bot, run, pos, in, t, out) ==
    LET bars == FetchLatestBars(in)
        n == Len(bars)
        enough == ~(n < slow_ema_period)
        has_position == enough /\ CheckExistingPosition(pos, in)
        \* generate_signals returned
        generated == enough /\ in.strat
        signals == IF generated THEN out[in.fetch].signals ELSE <<>>
        act == signals # <<>> /\ ~has_position
        latest_signal == IF act THEN signals[Len(signals)] ELSE NoSignal
        h == HandleSignal(latest_signal.signal_type, pos, in)
        signals_generated == bot.signals_generated + (IF act THEN 1 ELSE 0)
        orders_placed == bot.orders_placed + h.placed
        u == IF generated THEN UpdateRunStats(run, signals_generated, orders_placed, in)
             ELSE [run |-> run, exc |-> NoneStr]
        \* what the except clause of _execute_cycle catches
        caught == IF enough /\ ~in.strat THEN "generate_signals failed" ELSE u.exc
    IN  [bot |-> [is_running |-> bot.is_running,
                  signals_generated |-> signals_generated,
                  orders_placed |-> orders_placed,
                  last_error |-> IF caught # NoneStr THEN caught
                                 ELSE IF h.exc # NoneStr THEN h.exc
                                 ELSE bot.last_error,
                  last_signal |-> IF act THEN Upper(latest_signal.signal_type)
                                  ELSE bot.last_signal,
                  last_signal_time |-> IF act THEN t ELSE bot.last_signal_time,
                  current_price |-> IF enough THEN bars[n] ELSE bot.current_price,
                  fast_ema_value |-> IF generated THEN out[in.fetch].fast
                                     ELSE bot.fast_ema_value,
                  slow_ema_value |-> IF generated THEN out[in.fetch].slow
                                     ELSE bot.slow_ema_value,
                  last_check_time |-> t,
                  next_check_time |-> t + check_interval],
         run |-> u.run,
         pos |-> h.pos,
         calls |-> h.calls,
         raised |-> {m \in {IF in.fetch = FetchFails THEN "get_bars failed" ELSE NoneStr,
                            IF enough /\ ~in.posq THEN "list_positions failed" ELSE NoneStr,
                            IF generated /\ in.db # "ok" THEN "commit failed" ELSE NoneStr,
                            h.exc, caught} : m # NoneStr},
         facts |-> [nbars |-> n, has_position |-> has_position,
                    nsignals |-> Len(signals), acted |-> latest_signal.signal_type,
                    acted_at |-> latest_signal.timestamp, held |-> pos,
                    window |-> in.fetch]]

\* facts of no cycle
NoFacts == [nbars |-> 0, has_position |-> FALSE, nsignals |-> 0,
            acted |-> "none", acted_at |-> 0, held |-> "none", window |-> 0]

\* the history after a step that executes no cycle: n, the number of
\* cycles executed so far, stays
NoCycle(c) == [n |-> c.n, bot |-> NoBot, facts |-> NoFacts, calls |-> <<>>, raised |-> {}]

\* the coroutines that call start_bot or stop_bot (request handlers)
Callers == 1..MaxCallers

\* TradingBotManager._lock (an asyncio.Lock: locked, the waiters in their
\* order, woken: the first waiter's future is set) and each caller's
\* position: idle, waiting for the lock, or in the critical section of op
NoCalls == [locked |-> FALSE, waiters |-> <<>>, woken |-> FALSE,
            at |-> [c \in Callers |-> "idle"], op |-> [c \in Callers |-> "none"]]

\* entry of "async with cls._lock" by caller c for op: the lock is taken
\* at once if it is free and nobody waits, else c joins the waiters
Acquire(m, c, op) ==
    IF ~m.locked /\ m.waiters = <<>>
    THEN [m EXCEPT !.locked = TRUE, !.at[c] = "section", !.op[c] = op]
    ELSE [m EXCEPT !.waiters = Append(@, c), !.at[c] = "waiting", !.op[c] = op]

\* exit of "async with cls._lock" that leaves the lock taken
ReleaseNever(m, c) ==
    [m EXCEPT !.at[c] = "idle", !.op[c] = "none"]

\* exit of "async with cls._lock", on return and on an exception alike:
\* the lock is freed and the first waiter woken; the call of c is over
Release(m, c) ==
    [m EXCEPT !.locked = FALSE, !.woken = (m.waiters # <<>>),
              !.at[c] = "idle", !.op[c] = "none"]

----------------------------------------------------------------------------
(* Live trading bot: the state machine *)

\* str(e) of the exception that escapes the loop of TradingBot.run
LoopError == "loop failed"

\* no backtest beside the live bot
NoBacktest == [pc |-> "none"]

InitLive ==
    /\ instance = NoBot
    /\ nbots = 0
    /\ bots = [b \in Bots |-> NewBot]
    /\ pc = [b \in Bots |-> "unborn"]
    /\ wake_at = [b \in Bots |-> 0]
    /\ runs = [b \in Bots |-> NewRun]
    /\ now = 0
    /\ brokerPos \in Positions
    /\ hist = [stopped |-> [b \in Bots |-> FALSE], fatal |-> [b \in Bots |-> FALSE],
               cycles |-> [b \in Bots |-> 0], faults |-> 0,
               over |-> [b \in Bots |-> "unborn"]]
    /\ cyc = NoCycle([n |-> 0])
    /\ engine = EngineOutput
    /\ mgr = NoCalls
    /\ req = NoRequest

Init == InitLive /\ bt = NoBacktest

\* what TradingBotManager._instance refers to: nothing ("never" before the
\* first start_bot, "cleared" by stop_bot), a bot that is_running, a bot
\* whose loop halted on a fatal error, or a bot whose task has not taken
\* its first step ("pending").  hist.over[b] keeps it for the start_bot
\* that constructed bot b.
ReferenceState ==
    IF instance = NoBot THEN (IF nbots = 0 THEN "never" ELSE "cleared")
    ELSE IF bots[instance].is_running THEN "running"
    ELSE IF hist.fatal[instance] THEN "halted"
    ELSE "pending"

\* TradingBotManager.start_bot while the current instance is running
StartBotRejected ==
    /\ instance # NoBot /\ bots[instance].is_running
    /\ cyc' = NoCycle(cyc)
    /\ UNCHANGED <<instance, nbots, bots, pc, wake_at, runs, now, brokerPos, hist, engine, bt>>

\* start_bot without its is_running guard
StartBotUnguarded ==
    /\ nbots < MaxBots
    /\ LET b == nbots + 1
       IN  /\ nbots' = b
           /\ instance' = b
           /\ bots' = [bots EXCEPT ![b] = NewBot]
           /\ runs' = [runs EXCEPT ![b] = NewRun]
           /\ pc' = [pc EXCEPT ![b] = "created"]
           /\ hist' = [hist EXCEPT !.over[b] = ReferenceState]
    /\ cyc' = NoCycle(cyc)
    /\ UNCHANGED <<wake_at, now, brokerPos, engine, bt>>

\* TradingBotManager.start_bot otherwise: construct the bot, create its task
StartBot ==
    /\ ~(instance # NoBot /\ bots[instance].is_running)
    /\ nbots < MaxBots
    /\ LET b == nbots + 1
       IN  /\ nbots' = b
           /\ instance' = b
           /\ bots' = [bots EXCEPT ![b] = NewBot]
           /\ runs' = [runs EXCEPT ![b] = NewRun]
           /\ pc' = [pc EXCEPT ![b] = "created"]
           /\ hist' = [hist EXCEPT !.over[b] = ReferenceState]
    /\ cyc' = NoCycle(cyc)
    /\ UNCHANGED <<wake_at, now, brokerPos, engine, bt>>

\* TradingBot.stop
Stop(b, db) ==
    /\ bots' = [bots EXCEPT ![b].is_running = FALSE]
    /\ runs' = [runs EXCEPT ![b] = UpdateRunStatus(@, "stopped", NoneStr, db, now)]

\* TradingBotManager.stop_bot with an instance: TradingBot.stop, then the
\* reference is cleared
StopBot ==
    /\ instance # NoBot
    /\ \E db \in DbOutcomes :
         /\ hist.faults + DbFaults(db) <= MaxFaults
         /\ Stop(instance, db)
         /\ hist' = [hist EXCEPT !.stopped[instance] = TRUE, !.faults = @ + DbFaults(db)]
    /\ instance' = NoBot
    /\ cyc' = NoCycle(cyc)
    /\ UNCHANGED <<nbots, pc, wake_at, now, brokerPos, engine, bt>>

\* TradingBotManager.stop_bot without an instance
StopBotNone ==
    /\ instance = NoBot
    /\ cyc' = NoCycle(cyc)
    /\ UNCHANGED <<instance, nbots, bots, pc, wake_at, runs, now, brokerPos, hist, engine, bt>>

\* the clock when a sleep that ends at clock value t returns
Later(clock, t) == IF clock < t THEN t ELSE clock

\* CycleThenSleep with a cycle that takes current_price from the latest bar
\* before it looks at the number of bars
CycleThenSleepPriceFirst(b, bot0, in, t) ==
    LET w == ExecuteCycle(bot0, runs[b], brokerPos, in, t, engine)
        bars == FetchLatestBars(in)
    IN  /\ cyc.n < MaxCycles
        /\ hist.faults + Faults(in) <= MaxFaults
        /\ Faults(in) = Cardinality(w.raised)
        /\ bots' = [bots EXCEPT ![b] =
                       IF bars # <<>> THEN [w.bot EXCEPT !.current_price = bars[Len(bars)]]
                       ELSE w.bot]
        /\ runs' = [runs EXCEPT ![b] = w.run]
        /\ brokerPos' = w.pos
        /\ cyc' = [n |-> cyc.n + 1, bot |-> b, facts |-> w.facts,
                   calls |-> w.calls, raised |-> w.raised]
        /\ hist' = [hist EXCEPT !.cycles[b] = @ + 1, !.faults = @ + Faults(in)]
        /\ pc' = [pc EXCEPT ![b] = "sleeping"]
        /\ wake_at' = [wake_at EXCEPT ![b] = t + check_interval]
        /\ now' = t
        /\ UNCHANGED <<instance, nbots, engine, bt, mgr, req>>

\* one pass of the loop of TradingBot.run at clock value t: a cycle, then
\* asyncio.sleep(check_interval).  Of the outcomes in, those are taken
\* whose failing calls the cycle all makes: the outcome of a call that is
\* not made is immaterial, and fixed as returning.
CycleThenSleep(b, bot0, in, t) ==
    LET w == ExecuteCycle(bot0, runs[b], brokerPos, in, t, engine)
    IN  /\ cyc.n < MaxCycles
        /\ hist.faults + Faults(in) <= MaxFaults
        /\ Faults(in) = Cardinality(w.raised)
        /\ bots' = [bots EXCEPT ![b] = w.bot]
        /\ runs' = [runs EXCEPT ![b] = w.run]
        /\ brokerPos' = w.pos
        /\ cyc' = [n |-> cyc.n + 1, bot |-> b, facts |-> w.facts,
                   calls |-> w.calls, raised |-> w.raised]
        /\ hist' = [hist EXCEPT !.cycles[b] = @ + 1, !.faults = @ + Faults(in)]
        /\ pc' = [pc EXCEPT ![b] = "sleeping"]
        /\ wake_at' = [wake_at EXCEPT ![b] = t + check_interval]
        /\ now' = t
        /\ UNCHANGED <<instance, nbots, engine, bt, mgr, req>>

\* first step of the task of TradingBot.run: is_running = True, first cycle
TaskStart(b) ==
    /\ pc[b] = "created"
    /\ \E in \in CycleInputs :
         CycleThenSleep(b, [bots[b] EXCEPT !.is_running = TRUE], in, now)

\* the sleep is over and is_running is still set: next cycle
TaskWakeCycle(b) ==
    /\ pc[b] = "sleeping"
    /\ bots[b].is_running
    /\ \E in \in CycleInputs : CycleThenSleep(b, bots[b], in, Later(now, wake_at[b]))

\* the sleep is over and is_running was cleared: the loop ends
TaskWakeExit(b) ==
    /\ pc[b] = "sleeping"
    /\ ~bots[b].is_running
    /\ bots' = [bots EXCEPT ![b].is_running = FALSE]
    /\ pc' = [pc EXCEPT ![b] = "done"]
    /\ now' = Later(now, wake_at[b])
    /\ cyc' = NoCycle(cyc)
    /\ UNCHANGED <<instance, nbots, wake_at, runs, brokerPos, hist, engine, bt, mgr, req>>

\* TaskFatal without the finally clause of TradingBot.run
TaskFatalNoFinally(b) ==
    /\ pc[b] = "sleeping"
    /\ \E db \in DbOutcomes :
         /\ hist.faults + 1 + DbFaults(db) <= MaxFaults
         /\ runs' = [runs EXCEPT ![b] = UpdateRunStatus(@, "error", LoopError, db, now)]
         /\ hist' = [hist EXCEPT !.fatal[b] = TRUE, !.faults = @ + 1 + DbFaults(db)]
    /\ bots' = [bots EXCEPT ![b].last_error = LoopError]
    /\ pc' = [pc EXCEPT ![b] = "done"]
    /\ cyc' = NoCycle(cyc)
    /\ UNCHANGED <<instance, nbots, wake_at, now, brokerPos, engine, bt, mgr, req>>

\* an exception escapes the loop of TradingBot.run (raised at the await)
TaskFatal(b) ==
    /\ pc[b] = "sleeping"
    /\ \E db \in DbOutcomes :
         /\ hist.faults + 1 + DbFaults(db) <= MaxFaults
         /\ runs' = [runs EXCEPT ![b] = UpdateRunStatus(@, "error", LoopError, db, now)]
         /\ hist' = [hist EXCEPT !.fatal[b] = TRUE, !.faults = @ + 1 + DbFaults(db)]
    /\ bots' = [bots EXCEPT ![b].last_error = LoopError, ![b].is_running = FALSE]
    /\ pc' = [pc EXCEPT ![b] = "done"]
    /\ cyc' = NoCycle(cyc)
    /\ UNCHANGED <<instance, nbots, wake_at, now, brokerPos, engine, bt, mgr, req>>

----------------------------------------------------------------------------
(* Backtest simulator.  bt holds the Backtester object (its configuration, *)
(* cash, current_position, completed_trades, equity_curve), the bars given *)
(* to run(), and where run() is: "idle" (constructed), "loop" (about to    *)
(* process bar i), "done" (returned result), "failed" (raised ValueError). *)
(* A bar is its close; its timestamp is its index.                         *)

\* closes a bar can have, and what run() can be given
BtPrices == {100, 200, 400}
BtBars == UNION {[1..n -> BtPrices] : n \in 0..MaxBars}

\* configurations of the model
BtPercents == {Unset, 0, 50}
BtCapitals == {300, 10000}
BtQuantities == {1}

NoPosition == [side |-> "none"]
NoResult == [total_trades |-> -1]

\* Backtester.__init__
NewBacktester(stop_loss, take_profit, initial_capital, quantity) ==
    [stop_loss_percent |-> stop_loss, take_profit_percent |-> take_profit,
     initial_capital |-> initial_capital, quantity_per_trade |-> quantity,
     current_position |-> NoPosition, completed_trades |-> <<>>,
     equity_curve |-> <<>>, cash |-> initial_capital]

\* _open_position without the check of the available cash
OpenPositionUnchecked(o, side, price, timestamp) ==
    LET position_cost == price * o.quantity_per_trade
    IN  [o EXCEPT !.current_position =
                      [entry_time |-> timestamp, exit_time |-> NoneNum,
                       side |-> side, entry_price |-> price,
                       exit_price |-> NoneNum, quantity |-> o.quantity_per_trade,
                       pnl |-> NoneNum, pnl_percent |-> NoneNum,
                       exit_reason |-> NoneStr],
                  !.cash = @ - position_cost]

\* Backtester._open_position (price: a bar's close)
OpenPosition(o, side, price, timestamp) ==
    LET position_cost == price * o.quantity_per_trade
    IN  IF position_cost > o.cash THEN o
        ELSE [o EXCEPT !.current_position =
                           [entry_time |-> timestamp, exit_time |-> NoneNum,
                            side |-> side, entry_price |-> price,
                            exit_price |-> NoneNum, quantity |-> o.quantity_per_trade,
                            pnl |-> NoneNum, pnl_percent |-> NoneNum,
                            exit_reason |-> NoneStr],
                        !.cash = @ - position_cost]

\* _handle_signal that opens the opposite side of the signal
BtHandleSignalInverted(o, signal, timestamp) ==
    IF signal.signal_type = "buy" THEN OpenPosition(o, "sell", signal.price, timestamp)
    ELSE IF signal.signal_type = "sell" THEN OpenPosition(o, "buy", signal.price, timestamp)
    ELSE o

\* Backtester._handle_signal
BtHandleSignal(o, signal, timestamp) ==
    IF signal.signal_type = "buy" THEN OpenPosition(o, "buy", signal.price, timestamp)
    ELSE IF signal.signal_type = "sell" THEN OpenPosition(o, "sell", signal.price, timestamp)
    ELSE o

\* _close_position with the profit formulas of the two sides exchanged
ClosePositionSwappedSides(o, exit_price, timestamp, reason) ==
    IF o.current_position = NoPosition THEN o
    ELSE LET pos == o.current_position
             pnl == IF pos.side = "buy"
                    THEN (pos.entry_price - exit_price) * pos.quantity
                    ELSE (exit_price - pos.entry_price) * pos.quantity
             closed == [pos EXCEPT !.exit_time = timestamp,
                                   !.exit_price = exit_price,
                                   !.pnl = pnl,
                                   !.pnl_percent = [num |-> 100 * pnl,
                                                    den |-> pos.entry_price * pos.quantity],
                                   !.exit_reason = reason]
         IN  [o EXCEPT !.cash = @ + exit_price * pos.quantity,
                       !.completed_trades = Append(@, closed),
                       !.current_position = NoPosition]

\* _close_position that does not return the position's value to cash
ClosePositionKeepsCash(o, exit_price, timestamp, reason) ==
    IF o.current_position = NoPosition THEN o
    ELSE LET pos == o.current_position
             pnl == IF pos.side = "buy"
                    THEN (exit_price - pos.entry_price) * pos.quantity
                    ELSE (pos.entry_price - exit_price) * pos.quantity
             closed == [pos EXCEPT !.exit_time = timestamp,
                                   !.exit_price = exit_price,
                                   !.pnl = pnl,
                                   !.pnl_percent = [num |-> 100 * pnl,
                                                    den |-> pos.entry_price * pos.quantity],
                                   !.exit_reason = reason]
         IN  [o EXCEPT !.completed_trades = Append(@, closed),
                       !.current_position = NoPosition]

\* Backtester._close_position; pnl_percent is kept as the fraction num / den
ClosePosition(o, exit_price, timestamp, reason) ==
    IF o.current_position = NoPosition THEN o
    ELSE LET pos == o.current_position
             pnl == IF pos.side = "buy"
                    THEN (exit_price - pos.entry_price) * pos.quantity
                    ELSE (pos.entry_price - exit_price) * pos.quantity
             closed == [pos EXCEPT !.exit_time = timestamp,
                                   !.exit_price = exit_price,
                                   !.pnl = pnl,
                                   !.pnl_percent = [num |-> 100 * pnl,
                                                    den |-> pos.entry_price * pos.quantity],
                                   !.exit_reason = reason]
         IN  [o EXCEPT !.cash = @ + exit_price * pos.quantity,
                       !.completed_trades = Append(@, closed),
                       !.current_position = NoPosition]

\* _check_exit_conditions that closes at the bar's close instead of the
\* stop or target price
CheckExitConditionsAtClose(o, close, timestamp) ==
    LET pos == o.current_position
    IN  IF pos = NoPosition THEN o
        ELSE IF ShouldExitOnStopLoss(pos.entry_price, close, pos.side, o.stop_loss_percent)
        THEN ClosePosition(o, close, timestamp, "stop_loss")
        ELSE IF ShouldExitOnTakeProfit(pos.entry_price, close, pos.side, o.take_profit_percent)
        THEN ClosePosition(o, close, timestamp, "take_profit")
        ELSE o

\* Backtester._check_exit_conditions at a bar with this close
CheckExitConditions(o, close, timestamp) ==
    LET pos == o.current_position
    IN  IF pos = NoPosition THEN o
        ELSE IF ShouldExitOnStopLoss(pos.entry_price, close, pos.side, o.stop_loss_percent)
        THEN ClosePosition(o, CalculateStopLoss(pos.entry_price, pos.side, o.stop_loss_percent),
                           timestamp, "stop_loss")
        ELSE IF ShouldExitOnTakeProfit(pos.entry_price, close, pos.side, o.take_profit_percent)
        THEN ClosePosition(o, CalculateTakeProfit(pos.entry_price, pos.side, o.take_profit_percent),
                           timestamp, "take_profit")
        ELSE o

\* _calculate_current_equity that values the position at its entry price
CalculateCurrentEquityAtEntry(o, current_price) ==
    IF o.current_position # NoPosition
    THEN o.cash + o.current_position.entry_price * o.current_position.quantity
    ELSE o.cash

\* Backtester._calculate_current_equity
CalculateCurrentEquity(o, current_price) ==
    IF o.current_position # NoPosition
    THEN o.cash + current_price * o.current_position.quantity
    ELSE o.cash

\* signal_map.get(bar.timestamp)
SignalOf(signals, timestamp) ==
    LET at == {k \in 1..Len(signals) : signals[k].timestamp = timestamp}
    IN  IF at = {} THEN NoSignal ELSE signals[CHOOSE k \in at : \A j \in at : j <= k]

\* the loop body with the two steps exchanged: the signal of bar i is
\* handled first and the exit conditions are evaluated after it
ProcessBarEntryFirst(o, bars, signals, i) ==
    LET signal == SignalOf(signals, i)
        o1 == IF signal # NoSignal /\ o.current_position = NoPosition
              THEN BtHandleSignal(o, signal, i) ELSE o
        o2 == IF o1.current_position # NoPosition THEN CheckExitConditions(o1, bars[i], i) ELSE o1
    IN  [o2 EXCEPT !.equity_curve =
                       Append(@, [timestamp |-> i, equity |-> CalculateCurrentEquity(o2, bars[i])])]

\* the loop body in which a signal that arrives while a position is open
\* closes it at the bar's close (exit_reason signal) and opens the new one
ProcessBarSignalReverses(o, bars, signals, i) ==
    LET signal == SignalOf(signals, i)
        o1 == IF o.current_position # NoPosition THEN CheckExitConditions(o, bars[i], i) ELSE o
        o2 == IF signal # NoSignal /\ o1.current_position # NoPosition
              THEN ClosePosition(o1, bars[i], i, "signal") ELSE o1
        o3 == IF signal # NoSignal /\ o2.current_position = NoPosition
              THEN BtHandleSignal(o2, signal, i) ELSE o2
    IN  [o3 EXCEPT !.equity_curve =
                       Append(@, [timestamp |-> i, equity |-> CalculateCurrentEquity(o3, bars[i])])]

\* the body of the loop of Backtester.run for bar i
ProcessBar(o, bars, signals, i) ==
    LET signal == SignalOf(signals, i)
        o1 == IF o.current_position # NoPosition THEN CheckExitConditions(o, bars[i], i) ELSE o
        o2 == IF signal # NoSignal /\ o1.current_position = NoPosition
              THEN BtHandleSignal(o1, signal, i) ELSE o1
    IN  [o2 EXCEPT !.equity_curve =
                       Append(@, [timestamp |-> i, equity |-> CalculateCurrentEquity(o2, bars[i])])]

\* _calculate_max_drawdown that measures every fall from the first equity
\* point and never raises the peak
CalculateMaxDrawdownFromStart(equity_curve) ==
    LET n == Len(equity_curve)
        Zero == [num |-> 0, den |-> 1]
        st[k \in 0..n] ==
            IF k = 0
            THEN [max_equity |-> IF n = 0 THEN 0 ELSE equity_curve[1].equity,
                  max_drawdown |-> 0, max_drawdown_percent |-> Zero]
            ELSE LET prev == st[k - 1]
                     equity == equity_curve[k].equity
                     max_equity == prev.max_equity
                     drawdown == max_equity - equity
                 IN  IF drawdown > prev.max_drawdown
                     THEN [max_equity |-> max_equity, max_drawdown |-> drawdown,
                           max_drawdown_percent |->
                               IF max_equity > 0
                               THEN [num |-> 100 * drawdown, den |-> max_equity]
                               ELSE prev.max_drawdown_percent]
                     ELSE [prev EXCEPT !.max_equity = max_equity]
    IN  st[n]

\* Backtester._calculate_max_drawdown: [max_drawdown, max_drawdown_percent],
\* the percentage as the fraction [num / den]
CalculateMaxDrawdown(equity_curve) ==
    LET n == Len(equity_curve)
        Zero == [num |-> 0, den |-> 1]
        st[k \in 0..n] ==
            IF k = 0
            THEN [max_equity |-> IF n = 0 THEN 0 ELSE equity_curve[1].equity,
                  max_drawdown |-> 0, max_drawdown_percent |-> Zero]
            ELSE LET prev == st[k - 1]
                     equity == equity_curve[k].equity
                     max_equity == IF equity > prev.max_equity THEN equity ELSE prev.max_equity
                     drawdown == max_equity - equity
                 IN  IF drawdown > prev.max_drawdown
                     THEN [max_equity |-> max_equity, max_drawdown |-> drawdown,
                           max_drawdown_percent |->
                               IF max_equity > 0
                               THEN [num |-> 100 * drawdown, den |-> max_equity]
                               ELSE prev.max_drawdown_percent]
                     ELSE [prev EXCEPT !.max_equity = max_equity]
    IN  st[n]

\* Backtester._calculate_results
CalculateResults(o, start_date, end_date) ==
    LET curve == o.equity_curve
        trades == o.completed_trades
        final_capital == IF curve # <<>> THEN curve[Len(curve)].equity ELSE o.initial_capital
        total_pnl == final_capital - o.initial_capital
        winning_trades == Cardinality({k \in 1..Len(trades) :
                                          trades[k].pnl # 0 /\ trades[k].pnl > 0})
        losing_trades == Cardinality({k \in 1..Len(trades) :
                                         trades[k].pnl # 0 /\ trades[k].pnl < 0})
        total_trades == Len(trades)
        dd == CalculateMaxDrawdown(curve)
    IN  [start_date |-> start_date, end_date |-> end_date,
         initial_capital |-> o.initial_capital, final_capital |-> final_capital,
         total_pnl |-> total_pnl,
         total_pnl_percent |-> [num |-> 100 * total_pnl, den |-> o.initial_capital],
         total_trades |-> total_trades, winning_trades |-> winning_trades,
         losing_trades |-> losing_trades,
         win_rate |-> IF total_trades > 0
                      THEN [num |-> 100 * winning_trades, den |-> total_trades]
                      ELSE [num |-> 0, den |-> 1],
         max_drawdown |-> dd.max_drawdown,
         max_drawdown_percent |-> dd.max_drawdown_percent,
         equity_curve |-> curve, trades |-> trades]

\* a Backtester is constructed and run() is about to be called with bars
InitBacktest ==
    /\ InitLive
    /\ \E bars \in BtBars, sl \in BtPercents, tp \in BtPercents,
          capital \in BtCapitals, quantity \in BtQuantities :
           bt = [pc |-> "idle", obj |-> NewBacktester(sl, tp, capital, quantity),
                 strategy |-> [fast_period |-> fast_ema_period,
                               slow_period |-> slow_ema_period],
                 bars |-> bars, signals |-> <<>>, i |-> 0, result |-> NoResult,
                 first |-> NoResult]

\* Scenario A of the specification: 30 bars of constant close price 100
ScenarioA == [i \in 1..30 |-> 100]

\* Scenario B of the specification
ScenarioB == <<10, 10, 10, 10, 12, 14, 16, 18>>

\* the strictly increasing close series of up to MaxBars bars over these prices
RisingPrices == {10, 12, 14, 16, 18, 20}
RisingBars ==
    {bars \in UNION {[1..n -> RisingPrices] : n \in 2..MaxBars} :
        \A i \in 1..(Len(bars) - 1) : bars[i] < bars[i + 1]}

ScenarioBars == {ScenarioA, ScenarioB} \cup RisingBars

\* <<fast_period, slow_period>> of the strategy: integers >= 2, fast < slow
ScenarioPeriods == {<<2, 3>>, <<2, 4>>, <<3, 5>>}
ScenarioCapitals == {10, 1000}

\* a strategy and a Backtester are constructed for one of the scenarios and
\* run() is about to be called with its bars
InitScenario ==
    /\ InitLive
    /\ \E bars \in ScenarioBars, periods \in ScenarioPeriods,
          sl \in BtPercents, tp \in BtPercents,
          capital \in ScenarioCapitals, quantity \in BtQuantities :
           bt = [pc |-> "idle", obj |-> NewBacktester(sl, tp, capital, quantity),
                 strategy |-> [fast_period |-> periods[1], slow_period |-> periods[2]],
                 bars |-> bars, signals |-> <<>>, i |-> 0, result |-> NoResult,
                 first |-> NoResult]

\* BtRun without the check for an empty bar sequence
BtRunUnchecked ==
    /\ bt.pc = "idle"
    /\ bt' = [bt EXCEPT !.pc = "loop", !.i = 1,
                        !.signals = GenerateSignals(bt.bars, bt.strategy.fast_period,
                                                    bt.strategy.slow_period)]
    /\ UNCHANGED <<instance, nbots, bots, pc, wake_at, runs, now, brokerPos, hist, cyc, engine, mgr, req>>

\* Backtester.run up to its loop: no bars raise ValueError, else the
\* strategy generates the signals of all bars
BtRun ==
    /\ bt.pc = "idle"
    /\ bt' = IF bt.bars = <<>> THEN [bt EXCEPT !.pc = "failed"]
             ELSE [bt EXCEPT !.pc = "loop", !.i = 1,
                             !.signals = GenerateSignals(bt.bars, bt.strategy.fast_period,
                                                         bt.strategy.slow_period)]
    /\ UNCHANGED <<instance, nbots, bots, pc, wake_at, runs, now, brokerPos, hist, cyc, engine, mgr, req>>

\* one pass of the loop of Backtester.run
BtBar ==
    /\ bt.pc = "loop" /\ bt.i <= Len(bt.bars)
    /\ bt' = [bt EXCEPT !.obj = ProcessBar(bt.obj, bt.bars, bt.signals, bt.i),
                        !.i = @ + 1]
    /\ UNCHANGED <<instance, nbots, bots, pc, wake_at, runs, now, brokerPos, hist, cyc, engine, mgr, req>>

\* the end of Backtester.run without the forced close of the open position
BtReturnNoForceClose ==
    /\ bt.pc = "loop" /\ bt.i > Len(bt.bars)
    /\ bt' = [bt EXCEPT !.pc = "done",
                        !.result = CalculateResults(bt.obj, 1, Len(bt.bars))]
    /\ UNCHANGED <<instance, nbots, bots, pc, wake_at, runs, now, brokerPos, hist, cyc, engine, mgr, req>>

\* Backtester.run after its loop: the open position is closed at the last
\* bar, the results are calculated and returned
BtReturn ==
    /\ bt.pc = "loop" /\ bt.i > Len(bt.bars)
    /\ LET n == Len(bt.bars)
           o == IF bt.obj.current_position # NoPosition
                THEN ClosePosition(bt.obj, bt.bars[n], n, "end_of_backtest")
                ELSE bt.obj
       IN  bt' = [bt EXCEPT !.pc = "done", !.obj = o,
                            !.result = CalculateResults(o, 1, n)]
    /\ UNCHANGED <<instance, nbots, bots, pc, wake_at, runs, now, brokerPos, hist, cyc, engine, mgr, req>>

NextBacktest == BtRun \/ BtBar \/ BtReturn

\* Backtester.run called a second time on the same object with the same
\* bars, up to its loop; first keeps what the first call returned.  The
\* object is as the first call left it: run() resets none of its fields.
BtRunAgain ==
    /\ bt.pc = "done" /\ bt.first = NoResult
    /\ bt' = [bt EXCEPT !.first = bt.result, !.result = NoResult,
                        !.pc = "loop", !.i = 1,
                        !.signals = GenerateSignals(bt.bars, bt.strategy.fast_period,
                                                    bt.strategy.slow_period)]
    /\ UNCHANGED <<instance, nbots, bots, pc, wake_at, runs, now, brokerPos, hist, cyc, engine, mgr, req>>

NextRerun == BtRun \/ BtBar \/ BtReturn \/ BtRunAgain

\* one Backtester, run() called on it up to twice with the same bars
SpecRerun == InitBacktest /\ [][NextRerun]_vars

SpecBacktest == InitBacktest /\ [][NextBacktest]_vars

\* one Backtester run once on the bars of a scenario
SpecScenario == InitScenario /\ [][NextBacktest]_vars

\* start_bot when the constructor TradingBot(...) raises (its
\* _get_check_interval cannot parse the timeframe): the guard passed,
\* _instance is not assigned and no task is created
StartBotFailed ==
    /\ ~(instance # NoBot /\ bots[instance].is_running)
    /\ cyc' = NoCycle(cyc)
    /\ UNCHANGED <<instance, nbots, bots, pc, wake_at, runs, now, brokerPos, hist, engine, bt>>

\* a request handler calls start_bot or stop_bot and reaches the lock
ManagerCall(c, op) ==
    /\ mgr.at[c] = "idle"
    /\ mgr' = Acquire(mgr, c, op)
    /\ UNCHANGED req
    /\ cyc' = NoCycle(cyc)
    /\ UNCHANGED <<instance, nbots, bots, pc, wake_at, runs, now, brokerPos, hist, engine, bt>>

\* the first waiter, woken by a release, resumes in acquire and takes the lock
ManagerResume(c) ==
    /\ mgr.at[c] = "waiting" /\ mgr.woken
    /\ mgr.waiters # <<>> /\ Head(mgr.waiters) = c
    /\ mgr' = [mgr EXCEPT !.waiters = Tail(@), !.woken = FALSE,
                          !.locked = TRUE, !.at[c] = "section"]
    /\ UNCHANGED req
    /\ cyc' = NoCycle(cyc)
    /\ UNCHANGED <<instance, nbots, bots, pc, wake_at, runs, now, brokerPos, hist, engine, bt>>

\* the critical sections with their exits: the body of start_bot or
\* stop_bot on one of its paths, then the exit of "async with"
ManagerStartBot(c) ==
    /\ mgr.at[c] = "section" /\ mgr.op[c] = "start"
    /\ StartBot
    /\ mgr' = Release(mgr, c)
    /\ UNCHANGED req

ManagerStartRejected(c) ==
    /\ mgr.at[c] = "section" /\ mgr.op[c] = "start"
    /\ StartBotRejected
    /\ mgr' = Release(mgr, c)
    /\ UNCHANGED req

ManagerStartFailed(c) ==
    /\ mgr.at[c] = "section" /\ mgr.op[c] = "start"
    /\ StartBotFailed
    /\ mgr' = Release(mgr, c)
    /\ UNCHANGED req

ManagerStopBot(c) ==
    /\ mgr.at[c] = "section" /\ mgr.op[c] = "stop"
    /\ StopBot
    /\ mgr' = Release(mgr, c)
    /\ UNCHANGED req

ManagerStopBotNone(c) ==
    /\ mgr.at[c] = "section" /\ mgr.op[c] = "stop"
    /\ StopBotNone
    /\ mgr' = Release(mgr, c)
    /\ UNCHANGED req

\* The manager with its lock.  The model lets a caller be suspended
\* between taking the lock and running the body, which asyncio does only
\* at an await that suspends: more interleavings than the event loop
\* produces.  The tasks take their first step in between.
NextLock ==
    \/ \E c \in Callers, op \in {"start", "stop"} : ManagerCall(c, op)
    \/ \E c \in Callers : ManagerResume(c)
    \/ \E c \in Callers : ManagerStartBot(c)
    \/ \E c \in Callers : ManagerStartRejected(c)
    \/ \E c \in Callers : ManagerStartFailed(c)
    \/ \E c \in Callers : ManagerStopBot(c)
    \/ \E c \in Callers : ManagerStopBotNone(c)
    \/ \E b \in Bots : TaskStart(b)

SpecLock == Init /\ [][NextLock]_vars

\* start_bot with a config whose timeframe the constructor parses: the
\* bot is constructed with the check_interval derived from it
StartBotConstructs(timeframe) ==
    /\ ~GetCheckInterval(timeframe).raised
    /\ StartBot
    /\ req' = [timeframe |-> timeframe, outcome |-> "returned",
               check_interval |-> GetCheckInterval(timeframe).value]
    /\ UNCHANGED mgr

\* start_bot with a config on whose timeframe TradingBot.__init__ raises
\* ValueError (in _get_check_interval): the reference is not assigned
StartBotRaises(timeframe) ==
    /\ GetCheckInterval(timeframe).raised
    /\ StartBotFailed
    /\ req' = [timeframe |-> timeframe, outcome |-> "ValueError",
               check_interval |-> NoneNum]
    /\ UNCHANGED mgr

\* The manager called with configs of any timeframe of the model; the
\* tasks of the bots take no step.
NextStart ==
    \/ \E timeframe \in Timeframes : StartBotConstructs(timeframe)
    \/ \E timeframe \in Timeframes : StartBotRaises(timeframe)
    \/ StopBot /\ UNCHANGED <<mgr, req>>
    \/ StopBotNone /\ UNCHANGED <<mgr, req>>

SpecStart == Init /\ [][NextStart]_vars

Next ==
    \/ StartBot /\ UNCHANGED <<mgr, req>>
    \/ StartBotRejected /\ UNCHANGED <<mgr, req>>
    \/ StopBot /\ UNCHANGED <<mgr, req>>
    \/ StopBotNone /\ UNCHANGED <<mgr, req>>
    \/ \E b \in Bots : TaskStart(b)
    \/ \E b \in Bots : TaskWakeCycle(b)
    \/ \E b \in Bots : TaskWakeExit(b)
    \/ \E b \in Bots : TaskFatal(b)

Spec == Init /\ [][Next]_vars

----------------------------------------------------------------------------
(* Properties of the live bot and its manager *)

\* In the step properties, cyc'.n # cyc.n says that the step executes a
\* cycle, of bot cyc'.bot.

\* C1: at any moment at most one live bot is Running (is_running true).
C1_AtMostOneRunning == Cardinality({b \in Bots : bots[b].is_running}) <= 1

\* C2: while the bot started by the last successful start_bot has not been
\* stopped and its task is alive (created, even before its first step, or
\* in its loop), a start_bot call fails: it constructs no second bot.
C2_SecondStartFails ==
    [][(instance # NoBot /\ pc[instance] \in {"created", "sleeping"})
           => nbots' = nbots]_vars

\* C3: once stop_bot has stopped a bot, that bot executes no further cycle,
\* also when the stop came before the task's first step.
C3_NoCycleAfterStop ==
    [][\A b \in Bots : hist.stopped[b] => hist'.cycles[b] = hist.cycles[b]]_vars

\* C4: is_running is false before the bot is started, and after a stop or a
\* fatal error (or the end of its loop) it is never true again.
C4_RunningOnlyBetweenStartAndStop ==
    \A b \in Bots :
        (pc[b] = "unborn" \/ hist.stopped[b] \/ hist.fatal[b] \/ pc[b] = "done")
            => ~bots[b].is_running

\* C5: a cycle in which an exception was raised (bar fetch, position query,
\* strategy, signal handling, counter persistence) leaves the loop going:
\* the exception is stored in last_error, is_running stays true and the
\* task is in its inter-cycle wait.
C5_CycleExceptionRecorded ==
    [][(cyc'.n # cyc.n /\ cyc'.raised # {})
           => /\ bots'[cyc'.bot].last_error \in cyc'.raised
              /\ bots'[cyc'.bot].is_running
              /\ pc'[cyc'.bot] = "sleeping"]_vars

\* C6: when an exception escapes the loop of run(), it is stored in
\* last_error and, the run-record write succeeding (the escaping exception
\* is the step's only failure), the run is persisted with status "error"
\* and the message; from then on is_running is false, the task is over (no
\* restart) and the bot executes no further cycle.
C6_FatalExceptionHalts ==
    [][\A b \in Bots :
          /\ (hist'.fatal[b] /\ ~hist.fatal[b])
                => /\ bots'[b].last_error = LoopError
                   /\ (hist'.faults = hist.faults + 1
                          => /\ runs'[b].status = "error"
                             /\ runs'[b].error_message = LoopError)
          /\ hist'.fatal[b]
                => /\ ~bots'[b].is_running
                   /\ pc'[b] = "done"
                   /\ hist'.cycles[b] = hist.cycles[b]]_vars

\* C6 witness: a bot that executed a cycle was halted by an escaping
\* exception and its run is recorded as failed with the message.
C6_Witness ==
    \E b \in Bots :
        /\ hist.fatal[b] /\ hist.cycles[b] >= 1
        /\ runs[b].status = "error" /\ runs[b].error_message = LoopError
        /\ bots[b].last_error = LoopError

C10_ActsOnlyOnLatestBar ==
    [][(cyc'.n # cyc.n /\ (cyc'.facts.acted # "none" \/ cyc'.calls # <<>>))
           => /\ cyc'.facts.acted_at = cyc'.facts.nbars
              /\ ~cyc'.facts.has_position]_vars

\* C11: a cycle that fetches fewer bars than slow_period (none, when the
\* request fails) skips the rest: of the bot's fields only last_check_time
\* and next_check_time change (is_running is set, by run()), the run row
\* and the broker's position are as before, no broker call is made (no
\* write, and no position listing that could have failed), and the loop
\* goes on to its inter-cycle wait.
C11_TooFewBarsSkipsCycle ==
    [][(cyc'.n # cyc.n /\ cyc'.facts.nbars < slow_ema_period)
           => LET b == cyc'.bot
              IN  /\ bots'[b] = [bots[b] EXCEPT !.is_running = TRUE,
                                                !.last_check_time = now',
                                                !.next_check_time = now' + check_interval]
                  /\ runs'[b] = runs[b]
                  /\ brokerPos' = brokerPos
                  /\ cyc'.calls = <<>>
                  /\ cyc'.raised \subseteq {"get_bars failed"}
                  /\ pc'[b] = "sleeping"]_vars

\* C11 witness: a bot that had acted on a signal in an earlier cycle has
\* just executed a cycle in which two bars, fewer than slow_period, were
\* fetched.
C11_Witness ==
    /\ cyc.bot # NoBot /\ cyc.facts.nbars = 2
    /\ bots[cyc.bot].last_signal # NoneStr
    /\ bots[cyc.bot].signals_generated >= 1

\* C12: when a market-data call or a broker call (position listing, order
\* submission, position close) fails in a cycle, one of these failures is
\* in last_error at the end of the cycle.
C12_CollaboratorFailureRecorded ==
    [][(cyc'.n # cyc.n
        /\ cyc'.raised \cap {"get_bars failed", "list_positions failed",
                              "sell: list_positions failed", "submit_order failed",
                              "delete_position failed"} # {})
           => bots'[cyc'.bot].last_error
                 \in {"get_bars failed", "list_positions failed",
                      "sell: list_positions failed", "submit_order failed",
                      "delete_position failed"}]_vars

\* C13: while the current instance is Running no step constructs a bot or
\* launches a task, and the start_bot call made then is rejected with no
\* state change: the reference, every bot's fields, the run rows, the
\* tasks, the clock and the broker's position are as before.
C13_StartWhileRunningChangesNothing ==
    [][(instance # NoBot /\ bots[instance].is_running)
           => /\ nbots' = nbots
              /\ \A b \in Bots : pc[b] = "unborn" => pc'[b] = "unborn"
              /\ StartBotRejected
                    => /\ instance' = instance /\ bots' = bots /\ runs' = runs
                       /\ pc' = pc /\ wake_at' = wake_at /\ now' = now
                       /\ brokerPos' = brokerPos]_vars

\* C13 witness: the current instance is Running, has counted a signal and
\* placed an order, further bots can be constructed, and the last step
\* executed no cycle (as after a rejected start_bot).
C13_Witness ==
    /\ instance # NoBot /\ bots[instance].is_running
    /\ bots[instance].orders_placed >= 1
    /\ nbots < MaxBots
    /\ cyc.bot = NoBot

\* C14: as long as the manager holds a bot (from the return of start_bot
\* to stop_bot) that no fatal error has halted, that bot's is_running is
\* true, already before its task has taken its first step.
C14_RunningFromStartReturn ==
    (instance # NoBot /\ ~hist.fatal[instance]) => bots[instance].is_running

\* C15: after stop_bot has stopped a bot, the bot makes no later write to
\* its run record (a fatal error of the loop aside).
C15_NoRunWriteAfterStop ==
    [][\A b \in Bots :
          (hist.stopped[b] /\ ~hist'.fatal[b]) => runs'[b] = runs[b]]_vars

----------------------------------------------------------------------------
(* Properties of the backtest *)

\* C7: in a backtest result total_trades equals winning_trades plus
\* losing_trades, trades of zero profit included.
C7_TradesAreWinsPlusLosses ==
    bt.pc = "done"
        => bt.result.total_trades = bt.result.winning_trades + bt.result.losing_trades

\* C8: run() appends exactly one equity point per bar, in bar order and
\* with the bar's timestamp, whose equity is the cash after the bar plus
\* the bar's close times the quantity of the position then open (the cash
\* alone without a position); no other step touches the curve, and the
\* result returns the curve of all bars.
C8_EquityCurvePerBar ==
    [][LET c == bt.obj.equity_curve
           d == bt'.obj.equity_curve
       IN  /\ IF bt.pc = "loop" /\ bt'.pc = "loop"
              THEN /\ d = Append(c, [timestamp |-> bt.i,
                                     equity |->
                                         IF bt'.obj.current_position = NoPosition
                                         THEN bt'.obj.cash
                                         ELSE bt'.obj.cash
                                              + bt.bars[bt.i]
                                                * bt'.obj.current_position.quantity])
                   /\ Len(d) = bt.i
              ELSE d = c
           /\ bt'.pc = "done"
                 => /\ Len(d) = Len(bt.bars)
                    /\ bt'.result.equity_curve = d]_vars

\* C8 witness: a run over at least four bars returned, with a position
\* that was open while the price moved (the equity is not flat).
C8_Witness ==
    /\ bt.pc = "done" /\ Len(bt.bars) >= 4
    /\ bt.result.total_trades >= 1
    /\ \E k \in 1..Len(bt.result.equity_curve) :
          bt.result.equity_curve[k].equity # bt.obj.initial_capital
\* C16: run() given no bars fails at once and commits nothing: it ends in
\* the error with cash, current_position, completed_trades and equity_curve
\* as constructed, no signals generated (the strategy is not invoked) and
\* no result; and a run that gets past its first step was given bars.
C16_EmptyBarsFailClean ==
    /\ bt.pc = "failed"
          => /\ bt.bars = <<>>
             /\ bt.obj.cash = bt.obj.initial_capital
             /\ bt.obj.current_position = NoPosition
             /\ bt.obj.completed_trades = <<>>
             /\ bt.obj.equity_curve = <<>>
             /\ bt.signals = <<>> /\ bt.i = 0
             /\ bt.result = NoResult
    /\ bt.pc \in {"loop", "done"} => bt.bars # <<>>

\* C16 witness: a run given no bars has failed.
C16_Witness == bt.pc = "failed" /\ bt.bars = <<>>

\* C17: a second run() on the same Backtester with the same bars returns
\* a result equal to the first.
C17_SecondRunEqualsFirst ==
    (bt.pc = "done" /\ bt.first # NoResult) => bt.result = bt.first

\* C18: in any backtest, every completed long trade closed by the stop loss
\* has pnl <= 0 and every completed long trade closed by the take profit
\* has pnl >= 0 (the percentages of the model are 0 or positive, prices
\* and quantity are positive).
C18_LongExitSigns ==
    \A k \in 1..Len(bt.obj.completed_trades) :
        LET t == bt.obj.completed_trades[k]
        IN  /\ (t.side = "buy" /\ t.exit_reason = "stop_loss") => t.pnl <= 0
            /\ (t.side = "buy" /\ t.exit_reason = "take_profit") => t.pnl >= 0

\* C18 witness: a backtest has completed a long trade stopped out at a loss
\* and a backtest has completed a long trade closed at a profit target
\* above its entry; the state has one of them and a stop or target set.
C18_Witness ==
    \E k \in 1..Len(bt.obj.completed_trades) :
        LET t == bt.obj.completed_trades[k]
        IN  /\ t.side = "buy"
            /\ \/ t.exit_reason = "stop_loss" /\ t.pnl < 0
                  /\ bt.obj.stop_loss_percent > 0
               \/ t.exit_reason = "take_profit" /\ t.pnl > 0
                  /\ bt.obj.take_profit_percent > 0

\* C19: for every backtest run, max_drawdown >= 0 and
\* 0 <= max_drawdown_percent <= 100, max_drawdown is the largest fall of
\* the equity below its running peak over the equity curve, and
\* max_drawdown_percent is that fall divided by the peak at a point where
\* it happens, times 100 (the percentage is the fraction num / den).
C19_MaxDrawdown ==
    bt.pc = "done" =>
        LET curve == bt.result.equity_curve
            n == Len(curve)
            Peak(k) == CHOOSE e \in {curve[j].equity : j \in 1..k} :
                           \A j \in 1..k : curve[j].equity <= e
            Drawdown(k) == Peak(k) - curve[k].equity
            Largest == CHOOSE d \in {Drawdown(k) : k \in 1..n} :
                           \A k \in 1..n : Drawdown(k) <= d
            pct == bt.result.max_drawdown_percent
        IN  /\ bt.result.max_drawdown >= 0
            /\ pct.den > 0 /\ pct.num >= 0 /\ pct.num <= 100 * pct.den
            /\ bt.result.max_drawdown = Largest
            /\ \E k \in 1..n : /\ Drawdown(k) = Largest
                                /\ pct.num * Peak(k) = 100 * Largest * pct.den

\* C19 witness: a finished backtest whose equity first rose above the
\* initial capital and then fell: the drawdown is positive and larger than
\* the fall below the first equity point.
C19_Witness ==
    /\ bt.pc = "done"
    /\ bt.result.max_drawdown > 0
    /\ \E k \in 1..Len(bt.result.equity_curve) :
          /\ bt.result.equity_curve[k].equity > bt.result.equity_curve[1].equity
          /\ \E j \in (k + 1)..Len(bt.result.equity_curve) :
                bt.result.max_drawdown
                    > bt.result.equity_curve[1].equity - bt.result.equity_curve[j].equity
                /\ bt.result.equity_curve[j].equity < bt.result.equity_curve[k].equity

\* C20: for every backtest run, total_pnl = final_capital - initial_capital,
\* final_capital is the equity of the last point of the equity curve, and
\* it equals the cash held once the position left open was closed at the
\* end of the backtest.
C20_TotalPnlIsCapitalChange ==
    bt.pc = "done" =>
        /\ bt.result.total_pnl = bt.result.final_capital - bt.result.initial_capital
        /\ bt.result.initial_capital = bt.obj.initial_capital
        /\ bt.result.final_capital
               = bt.result.equity_curve[Len(bt.result.equity_curve)].equity
        /\ bt.result.final_capital = bt.obj.cash
        /\ bt.obj.current_position = NoPosition

\* C20 witness: a finished backtest whose last trade was closed by the end
\* of the backtest with a profit or a loss, so the capital changed.
C20_Witness ==
    /\ bt.pc = "done"
    /\ bt.obj.completed_trades # <<>>
    /\ LET t == bt.obj.completed_trades[Len(bt.obj.completed_trades)]
       IN  t.exit_reason = "end_of_backtest" /\ t.pnl # 0
    /\ bt.result.total_pnl # 0

\* C21: every completed trade of a backtest has exit_time >= entry_time,
\* and a trade closed by the stop loss or the take profit has exit_time
\* strictly later than entry_time: a position is never opened and exited
\* by rule on the same bar (the bars are in time order, a bar's timestamp
\* is its index).
C21_ExitNotBeforeEntry ==
    \A k \in 1..Len(bt.obj.completed_trades) :
        LET t == bt.obj.completed_trades[k]
        IN  /\ t.exit_time >= t.entry_time
            /\ t.exit_reason \in {"stop_loss", "take_profit"}
                   => t.exit_time > t.entry_time

\* C21 witness: a position opened at a bar whose close already satisfies
\* its exit rule (a stop loss of 0 percent: the stop is the entry price)
\* was closed by that rule, at a later bar.
C21_Witness ==
    /\ bt.obj.stop_loss_percent = 0
    /\ \E k \in 1..Len(bt.obj.completed_trades) :
          LET t == bt.obj.completed_trades[k]
          IN  /\ t.side = "buy" /\ t.exit_reason = "stop_loss"
              /\ bt.bars[t.entry_time] = t.entry_price
              /\ t.exit_time > t.entry_time

\* C22: with fast_period 2, slow_period 4 and closes
\* [10,10,10,10,12,14,16,18], the strategy emits exactly one signal, a BUY
\* at the 5th or 6th bar, and the backtest with quantity 1 and initial
\* capital 1000, without stop loss and take profit, returns exactly one
\* completed trade: a long closed with exit_reason end_of_backtest at the
\* last close, with pnl > 0.
C22_ScenarioB ==
    ( /\ bt.bars = ScenarioB
      /\ bt.strategy = [fast_period |-> 2, slow_period |-> 4]
      /\ bt.obj.initial_capital = 1000 /\ bt.obj.quantity_per_trade = 1
      /\ bt.obj.stop_loss_percent = Unset /\ bt.obj.take_profit_percent = Unset )
    => /\ bt.pc # "failed"
       /\ bt.pc \in {"loop", "done"}
              => /\ Len(bt.signals) = 1
                 /\ bt.signals[1].signal_type = "buy"
                 /\ bt.signals[1].timestamp \in {5, 6}
       /\ bt.pc = "done"
              => /\ bt.result.total_trades = 1
                 /\ Len(bt.result.trades) = 1
                 /\ bt.result.trades[1].side = "buy"
                 /\ bt.result.trades[1].exit_reason = "end_of_backtest"
                 /\ bt.result.trades[1].exit_price = 18
                 /\ bt.result.trades[1].exit_time = 8
                 /\ bt.result.trades[1].pnl > 0

\* C22 witness: the backtest of scenario B has returned.
C22_Witness ==
    /\ bt.pc = "done"
    /\ bt.bars = ScenarioB
    /\ bt.strategy = [fast_period |-> 2, slow_period |-> 4]
    /\ bt.obj.initial_capital = 1000 /\ bt.obj.quantity_per_trade = 1
    /\ bt.obj.stop_loss_percent = Unset /\ bt.obj.take_profit_percent = Unset
    /\ bt.result.total_trades = 1

C24_ScenarioA ==
    bt.bars = ScenarioA
    => /\ bt.pc # "failed"
       /\ bt.signals = <<>>
       /\ bt.obj.current_position = NoPosition
       /\ bt.obj.completed_trades = <<>>
       /\ bt.obj.cash = bt.obj.initial_capital
       /\ \A k \in 1..Len(bt.obj.equity_curve) :
              bt.obj.equity_curve[k].equity = bt.obj.initial_capital
       /\ bt.pc = "done"
              => /\ bt.result.total_trades = 0 /\ bt.result.trades = <<>>
                 /\ Len(bt.result.equity_curve) = 30
                 /\ \A k \in 1..30 :
                        bt.result.equity_curve[k].equity = bt.result.initial_capital
                 /\ bt.result.final_capital = bt.result.initial_capital
                 /\ bt.result.total_pnl = 0
                 /\ bt.result.max_drawdown = 0
                 /\ bt.result.max_drawdown_percent.num = 0

\* C24 witness: the backtest of scenario A has returned, with a stop loss
\* and a take profit configured.
C24_Witness ==
    /\ bt.pc = "done" /\ bt.bars = ScenarioA
    /\ Len(bt.result.equity_curve) = 30
    /\ bt.obj.stop_loss_percent = 0 /\ bt.obj.take_profit_percent = 50
    /\ bt.strategy.slow_period = 5

C26_LockSerializes ==
    /\ Cardinality({c \in Callers : mgr.at[c] = "section"}) <= 1
    /\ mgr.locked <=> (\E c \in Callers : mgr.at[c] = "section")
    /\ \A c \in Callers :
          /\ mgr.at[c] = "waiting"
                <=> (\E k \in 1..Len(mgr.waiters) : mgr.waiters[k] = c)
          /\ Cardinality({k \in 1..Len(mgr.waiters) : mgr.waiters[k] = c}) <= 1
          /\ mgr.at[c] = "section"
                => ENABLED (\/ ManagerStartBot(c) \/ ManagerStartRejected(c)
                            \/ ManagerStartFailed(c)
                            \/ ManagerStopBot(c) \/ ManagerStopBotNone(c))
    /\ mgr.waiters # <<>> => (mgr.locked \/ mgr.woken)
    /\ mgr.woken => (~mgr.locked /\ mgr.waiters # <<>>)

\* C26 witness: while a bot is running, a critical section was left with
\* another call waiting: the lock is free again and the waiter, a call of
\* start_bot that will be rejected, has been woken.
C26_Witness ==
    /\ ~mgr.locked /\ mgr.woken /\ mgr.waiters # <<>>
    /\ mgr.op[Head(mgr.waiters)] = "start"
    /\ instance # NoBot /\ bots[instance].is_running

\* C27: at a bar of a backtest with an open position the exit conditions
\* are evaluated before any entry, the stop loss first, then the take
\* profit.  The first one satisfied closes the position at its threshold
\* price (not the bar's close) with the matching exit_reason and adds
\* exit_price * quantity to cash; a signal at that same bar then opens a
\* new position on the same bar, if the cash pays for it.  When neither
\* is satisfied the position stays and nothing is opened.
C27_ExitBeforeEntry ==
    [][(bt.pc = "loop" /\ bt'.i = bt.i + 1 /\ bt.obj.current_position # NoPosition)
          => LET o == bt.obj
                 after == bt'.obj
                 pos == o.current_position
                 close == bt.bars[bt.i]
                 stop == ShouldExitOnStopLoss(pos.entry_price, close, pos.side,
                                              o.stop_loss_percent)
                 take == ShouldExitOnTakeProfit(pos.entry_price, close, pos.side,
                                                o.take_profit_percent)
                 exit_price ==
                     IF stop THEN CalculateStopLoss(pos.entry_price, pos.side,
                                                    o.stop_loss_percent)
                     ELSE CalculateTakeProfit(pos.entry_price, pos.side,
                                              o.take_profit_percent)
                 proceeds == exit_price * pos.quantity
                 n == Len(o.completed_trades)
                 signal == SignalOf(bt.signals, bt.i)
             IN  IF stop \/ take
                 THEN /\ Len(after.completed_trades) = n + 1
                      /\ after.completed_trades[n + 1].exit_reason
                            = (IF stop THEN "stop_loss" ELSE "take_profit")
                      /\ after.completed_trades[n + 1].exit_price = exit_price
                      /\ after.completed_trades[n + 1].exit_time = bt.i
                      /\ after.completed_trades[n + 1].entry_time = pos.entry_time
                      /\ after.completed_trades[n + 1].side = pos.side
                      /\ IF signal # NoSignal
                            /\ signal.price * o.quantity_per_trade <= o.cash + proceeds
                         THEN /\ after.current_position # NoPosition
                              /\ after.current_position.entry_time = bt.i
                              /\ after.current_position.side = signal.signal_type
                              /\ after.cash = o.cash + proceeds
                                                - signal.price * o.quantity_per_trade
                         ELSE /\ after.current_position = NoPosition
                              /\ after.cash = o.cash + proceeds
                 ELSE /\ after.completed_trades = o.completed_trades
                      /\ after.current_position = pos
                      /\ after.cash = o.cash]_vars

\* C27 witness: a position was closed by its stop loss or take profit at
\* the threshold price, which differs from that bar's close, and a new
\* position was opened on the bar of that exit.
C27_Witness ==
    /\ bt.obj.current_position # NoPosition
    /\ bt.obj.completed_trades # <<>>
    /\ LET t == bt.obj.completed_trades[Len(bt.obj.completed_trades)]
       IN  /\ t.exit_reason \in {"stop_loss", "take_profit"}
           /\ t.exit_time = bt.obj.current_position.entry_time
           /\ t.exit_price # bt.bars[t.exit_time]

\* C28: at a bar where no position is open and a signal exists at the
\* bar's timestamp, a BUY opens a long and a SELL opens a short of size
\* quantity_per_trade at the signal price and price * quantity_per_trade
\* is deducted from cash; if that cost exceeds the cash the entry is a
\* no-op: cash, current_position and completed_trades are unchanged.  In
\* both cases the bar's EquityPoint is recorded.
C28_EntryOrNoOp ==
    [][(/\ bt.pc = "loop" /\ bt'.i = bt.i + 1
        /\ bt.obj.current_position = NoPosition
        /\ SignalOf(bt.signals, bt.i) # NoSignal)
          => LET o == bt.obj
                 after == bt'.obj
                 signal == SignalOf(bt.signals, bt.i)
                 cost == signal.price * o.quantity_per_trade
                 point == after.equity_curve[Len(after.equity_curve)]
             IN  /\ signal.price = bt.bars[bt.i]
                 /\ after.completed_trades = o.completed_trades
                 /\ Len(after.equity_curve) = Len(o.equity_curve) + 1
                 /\ point.timestamp = bt.i
                 /\ IF cost > o.cash
                    THEN /\ after.cash = o.cash
                         /\ after.current_position = NoPosition
                         /\ point.equity = o.cash
                    ELSE /\ after.cash = o.cash - cost
                         /\ after.current_position.side
                               = (IF signal.signal_type = "buy" THEN "buy" ELSE "sell")
                         /\ after.current_position.entry_price = signal.price
                         /\ after.current_position.quantity = o.quantity_per_trade
                         /\ after.current_position.entry_time = bt.i
                         /\ after.current_position.exit_reason = NoneStr
                         /\ point.equity = o.cash]_vars

\* C28 witness: the signal of the last bar processed found no position
\* open and cost more than the cash: nothing was opened, the cash is the
\* initial capital and the bar has its equity point.
C28_Witness ==
    /\ bt.pc = "loop" /\ bt.i >= 2
    /\ SignalOf(bt.signals, bt.i - 1) # NoSignal
    /\ SignalOf(bt.signals, bt.i - 1).price * bt.obj.quantity_per_trade > bt.obj.cash
    /\ bt.obj.current_position = NoPosition
    /\ bt.obj.completed_trades = <<>>
    /\ bt.obj.cash = bt.obj.initial_capital
    /\ Len(bt.obj.equity_curve) = bt.i - 1

\* C29: when a backtest run returns no position is open.  A position still
\* open after the last bar is force-closed at the last bar's close price
\* and timestamp with exit_reason end_of_backtest, it is the last element
\* of the trade list, and the forced close does not change the final
\* equity already recorded: the equity curve is as it was and
\* final_capital is its last point.  Without an open position the trade
\* list is returned as it is.
C29_ForceCloseAtEnd ==
    [][(bt.pc = "loop" /\ bt'.pc = "done")
          => LET o == bt.obj
                 after == bt'.obj
                 n == Len(bt.bars)
                 trades == bt'.result.trades
             IN  /\ after.current_position = NoPosition
                 /\ trades = after.completed_trades
                 /\ after.equity_curve = o.equity_curve
                 /\ bt'.result.equity_curve = o.equity_curve
                 /\ bt'.result.final_capital = o.equity_curve[n].equity
                 /\ IF o.current_position # NoPosition
                    THEN /\ Len(trades) = Len(o.completed_trades) + 1
                         /\ \A k \in 1..Len(o.completed_trades) :
                                trades[k] = o.completed_trades[k]
                         /\ trades[Len(trades)].exit_reason = "end_of_backtest"
                         /\ trades[Len(trades)].exit_price = bt.bars[n]
                         /\ trades[Len(trades)].exit_time = n
                         /\ trades[Len(trades)].entry_time = o.current_position.entry_time
                         /\ trades[Len(trades)].entry_price = o.current_position.entry_price
                         /\ trades[Len(trades)].side = o.current_position.side
                    ELSE trades = o.completed_trades]_vars

\* C29 witness: a backtest returned after a trade closed by rule and a
\* second position, opened later and still open after the last bar, which
\* was force-closed at a price other than its entry price.
C29_Witness ==
    /\ bt.pc = "done"
    /\ Len(bt.result.trades) = 2
    /\ bt.result.trades[1].exit_reason \in {"stop_loss", "take_profit"}
    /\ bt.result.trades[2].exit_reason = "end_of_backtest"
    /\ bt.result.trades[2].exit_price # bt.result.trades[2].entry_price
    /\ bt.obj.current_position = NoPosition

C31_PnlMatchesCash ==
    bt.pc = "done" =>
        LET trades == bt.result.trades
            sum[k \in 0..Len(trades)] ==
                IF k = 0 THEN 0 ELSE sum[k - 1] + trades[k].pnl
        IN  /\ bt.result.final_capital - bt.result.initial_capital = sum[Len(trades)]
            /\ \A k \in 1..Len(trades) :
                   trades[k].exit_price * trades[k].quantity
                     - trades[k].entry_price * trades[k].quantity = trades[k].pnl

\* C32: the live bot never submits a BUY order in a cycle during which the
\* broker holds an open position on the bot's symbol, cycles in which the
\* position query fails included.
C32_NoBuyWhilePositionHeld ==
    [][(cyc'.n # cyc.n
        /\ \E k \in 1..Len(cyc'.calls) : cyc'.calls[k].op = "submit_order_buy")
          => brokerPos = "none"]_vars

\* C33: across consecutive live cycles each distinct crossover signal is
\* counted in signals_generated at most once and leads to at most one
\* order submission: when a cycle acted on a signal and the bot's next
\* cycle fetches the same bars (the signal, with its bar timestamp, is
\* still in the window), that cycle neither counts the signal again nor
\* issues a broker write.
C33_SignalCountedOnce ==
    [][( /\ cyc.bot # NoBot /\ cyc'.bot = cyc.bot /\ cyc'.n = cyc.n + 1
         /\ cyc.facts.acted # "none"
         /\ cyc'.facts.window = cyc.facts.window )
          => /\ bots'[cyc.bot].signals_generated = bots[cyc.bot].signals_generated
             /\ cyc'.calls = <<>>]_vars

\* C34: in every cycle orders_placed grows by exactly one when a broker
\* write (order submission or position close) returned, and stays as it
\* was otherwise; a cycle whose broker write failed leaves orders_placed
\* unchanged and leaves last_error set; and orders_placed never exceeds
\* signals_generated.
C34_OrdersCountSuccessfulWrites ==
    /\ [](\A b \in 1..nbots : bots[b].orders_placed <= bots[b].signals_generated)
    /\ [][cyc'.n # cyc.n =>
            LET b == cyc'.bot
                returned == \E k \in 1..Len(cyc'.calls) : cyc'.calls[k].ok
                failed == \E k \in 1..Len(cyc'.calls) : ~cyc'.calls[k].ok
            IN  /\ Len(cyc'.calls) <= 1
                /\ bots'[b].orders_placed
                     = bots[b].orders_placed + (IF returned THEN 1 ELSE 0)
                /\ failed => /\ bots'[b].orders_placed = bots[b].orders_placed
                             /\ bots'[b].last_error # NoneStr]_vars

\* C34 witness: a bot whose first submission failed and whose second
\* returned: two signals counted, one order counted, the failure recorded.
C34_Witness ==
    \E b \in 1..nbots :
        /\ cyc.bot = b /\ cyc.n = 2
        /\ cyc.calls = <<Call("submit_order_buy", TRUE)>>
        /\ bots[b].orders_placed = 1
        /\ bots[b].signals_generated = 2
        /\ bots[b].last_error = "submit_order failed"

\* C35: in a backtest (positive closes, positive quantity) the cash and
\* every recorded equity are never negative, and every step changes the
\* cash only by adding the non-negative proceeds of the position it closed
\* and subtracting the cost of the position it opened, which the cash
\* before the opening covered.
C35_CashNeverNegative ==
    /\ [](/\ bt.obj.cash >= 0
          /\ \A k \in 1..Len(bt.obj.equity_curve) : bt.obj.equity_curve[k].equity >= 0)
    /\ [][LET o == bt.obj
              p == bt'.obj
              closed == Len(p.completed_trades) = Len(o.completed_trades) + 1
              opened == /\ p.current_position # NoPosition
                        /\ \/ o.current_position = NoPosition
                           \/ p.current_position.entry_time # o.current_position.entry_time
              last == p.completed_trades[Len(p.completed_trades)]
              proceeds == IF closed THEN last.exit_price * last.quantity ELSE 0
              cost == IF opened
                      THEN p.current_position.entry_price * p.current_position.quantity
                      ELSE 0
          IN  /\ Len(p.completed_trades) \in {Len(o.completed_trades),
                                              Len(o.completed_trades) + 1}
              /\ proceeds >= 0 /\ cost >= 0
              /\ cost <= o.cash + proceeds
              /\ p.cash = o.cash + proceeds - cost]_vars

\* C35 witness: a run on capital 300 that has closed one position and
\* holds another, with part of the cash spent on it.
C35_Witness ==
    /\ bt.pc = "loop"
    /\ bt.obj.initial_capital = 300
    /\ Len(bt.obj.completed_trades) >= 1
    /\ bt.obj.current_position # NoPosition
    /\ bt.obj.cash < bt.obj.initial_capital

\* C36: start_bot succeeds whenever no instance is running: every
\* start_bot call made while the reference is cleared (after stop_bot) or
\* refers to a bot halted on a fatal error returns a new bot, which
\* replaces the reference and whose task is created.
C36_StartSucceedsWhenNotRunning ==
    [][(ReferenceState \in {"cleared", "halted"} /\ (req' # req \/ nbots' # nbots))
          => /\ req'.outcome = "returned"
             /\ nbots' = nbots + 1
             /\ instance' = nbots' /\ instance' # instance
             /\ pc'[instance'] = "created"]_vars

\* C36, the guard of start_bot alone (whatever the config is).  While the
\* reference is cleared (after stop_bot) or refers to a bot halted on a
\* fatal error, start_bot is not rejected and can construct a bot; the bot
\* halted on a fatal error has is_running false; every start_bot that
\* constructs a bot replaces the reference by the new bot and creates its
\* task, which can take its first step (while the model's bound on the
\* number of cycles allows one).
C36_StartAfterStopOrHalt ==
    /\ []((instance = NoBot \/ hist.fatal[instance]) =>
            /\ instance # NoBot => ~bots[instance].is_running
            /\ ~ENABLED (StartBotRejected /\ UNCHANGED <<mgr, req>>)
            /\ nbots < MaxBots => ENABLED (StartBot /\ UNCHANGED <<mgr, req>>))
    /\ [](\A b \in Bots : (pc[b] = "created" /\ cyc.n < MaxCycles) => ENABLED TaskStart(b))
    /\ [][nbots' # nbots =>
            /\ ReferenceState # "running"
            /\ nbots' = nbots + 1
            /\ instance' = nbots' /\ instance' # instance
            /\ pc'[instance'] = "created"]_vars

\* C36, reached for the guard: the first bot halted on a fatal error and was still the
\* referenced instance when start_bot constructed the second bot, whose
\* loop is now running.
C36_Witness ==
    /\ nbots = 2 /\ instance = 2
    /\ hist.over[2] = "halted" /\ hist.fatal[1] /\ ~hist.stopped[1]
    /\ ~bots[1].is_running
    /\ bots[2].is_running

\* C37: for every timeframe string given to start_bot the bot is
\* constructed (the construction never fails on the timeframe) and its
\* check_interval is N * 60 for N minutes (an integer followed by "min",
\* in any case), N * 3600 for N hours (an integer followed by "hour"),
\* 86400 for a day timeframe, and 300 for every other string.
C37_CheckIntervalForEveryTimeframe ==
    req.outcome # "none" =>
        LET tf == LowerStr(req.timeframe)
            n == Len(tf)
            IsAmount(str) == ~ParseInt(str).raised
            EndsWith(unit) == n >= Len(unit) /\ SubSeq(tf, n - Len(unit) + 1, n) = unit
            Before(unit) == SubSeq(tf, 1, n - Len(unit))
            IsAmountOf(unit) == EndsWith(unit) /\ IsAmount(Before(unit))
            AmountOf(unit) == ParseInt(Before(unit)).value
            min == <<"m", "i", "n">>
            hour == <<"h", "o", "u", "r">>
        IN  /\ req.outcome = "returned"
            /\ req.check_interval =
                  IF IsAmountOf(min) THEN AmountOf(min) * 60
                  ELSE IF IsAmountOf(hour) THEN AmountOf(hour) * 3600
                  ELSE IF Contains(tf, <<"d", "a", "y">>) THEN 86400
                  ELSE 300

====
